---- MODULE Spec2Model ----
(***************************************************************************)
(* Model of src/server.js: the in-memory signal store, the TradingView     *)
(* webhook (ingest), the analyze transition, the trade store, the read     *)
(* endpoints and the response-time leaderboard.                            *)
(*                                                                         *)
(* Node runs each request handler to completion on one thread, so a        *)
(* handler is one atomic action on the stores.  The wall clock is outside  *)
(* the process: it may advance between two reads made by one handler.  It  *)
(* is modelled as a correct clock, one that never goes backwards.          *)
(*                                                                         *)
(* Representation.  A JavaScript value that may be null/undefined is a     *)
(* sequence of length <= 1: <<>> is null, <<v>> is the value v.  Instants  *)
(* are integers in milliseconds (Date.now()); the modelled clock moves in  *)
(* steps of one second so that the division by 1000 of line 91 is exact.   *)
(* A quotient of two numbers (line 169) is kept as a reduced fraction.     *)
(***************************************************************************)
EXTENDS Integers, Sequences, FiniteSets, TLC

VARIABLES
    now,        \* the wall clock, in ms: what Date.now() / new Date() read
    signals,    \* line 16: let signals = []   (index 1 is the array's front)
    trades,     \* line 17: let trades = []
    res,        \* the response sent by the latest request
    analyzed_ok, \* history: ids for which an analyze request has succeeded
    inflight    \* analyze requests received, with their answers once handled

vars == <<now, signals, trades, res, analyzed_ok, inflight>>

----------------------------------------------------------------------------
(* Bounds of the model *)

MaxStored == 2    \* records (signals and trades) stored in one run
MaxClock == 2     \* the clock stays within 0 .. MaxClock seconds
MaxIndexKey == 9  \* property keys "0" .. "9" are recognised as integer-like

(* Program constants *)

MsPerSecond == 1000     \* line 91: / 1000

TickMs == MsPerSecond   \* granularity of the modelled clock

Null == <<>>

Some(v) == <<v>>

Instants == {k * TickMs : k \in 0..MaxClock}

\* a later read of the clock by the same handler: the clock has advanced by
\* one step since the read that gave t, or it has not
Later(t, adv) == IF adv THEN t + TickMs ELSE t

----------------------------------------------------------------------------
(* JavaScript semantics used by the handlers *)

\* a change of TruthyStr: only null/undefined count as absent
PresentStr(x) == x # Null

\* !x is false: a string is truthy unless empty, null/undefined are falsy
TruthyStr(x) == x # Null /\ x[1] # ""

\* a number is truthy unless 0 (NaN cannot arise here), null is falsy
TruthyNum(x) == x # Null /\ x[1] # 0

\* x || dflt, on an optional string
OrElse(x, dflt) == IF TruthyStr(x) THEN x[1] ELSE dflt

\* a number used in arithmetic: null converts to 0
ToNumber(x) == IF x = Null THEN 0 ELSE x[1]

\* a value used as a property key: it is converted to a string
PropertyKey(x) == IF x = Null THEN "null" ELSE x[1]

\* parseFloat(x) of line 38: the number a decimal string denotes, NaN (kept
\* as null: both are falsy) for an absent value or any other string
parseFloat(x) ==
    IF x # Null /\ \E n \in 0..MaxIndexKey : ToString(n) = x[1]
    THEN Some(CHOOSE n \in 0..MaxIndexKey : ToString(n) = x[1])
    ELSE Null

\* x || dflt, on an optional number
OrElseNum(x, dflt) == IF TruthyNum(x) THEN x[1] ELSE dflt

\* Date.now().toString()
DateNowToString(t) == ToString(t)

----------------------------------------------------------------------------
(* POST /webhook/tradingview *)

\* request bodies that carry no field but auth_token: absent, empty or present
Payloads ==
    [auth_token : {Null, Some(""), Some("t")},
     ticker : {Null}, action : {Null}, price : {Null}]

\* request bodies with a token and the other fields absent, well-formed, or
\* carrying an action and a price the receiver does not know
FieldPayloads ==
    { [auth_token |-> Some("t"), ticker |-> Null, action |-> Null, price |-> Null],
      [auth_token |-> Some("t"), ticker |-> Some("EURUSD"), action |-> Some("buy"),
       price |-> Some("1")],
      [auth_token |-> Some("t"), ticker |-> Some("EURUSD"), action |-> Some("sell"),
       price |-> Some("2")],
      [auth_token |-> Some("t"), ticker |-> Some(""), action |-> Some("hold"),
       price |-> Some("abc")],
      [auth_token |-> Null, ticker |-> Some("EURUSD"), action |-> Some("sell"),
       price |-> Some("2")] }

\* line 37: req.body.action || 'buy'
actionOf(p) == OrElse(p.action, "buy")

\* lines 34-45: the signal built from the body, without the event timestamp
\* of line 39, which nothing reads back; t1 is the clock read of line 35,
\* t2 the one of line 40
NewSignal(p, t1, t2) ==
    [ id                    |-> DateNowToString(t1),
      ticker                |-> OrElse(p.ticker, "UNKNOWN"),
      action                |-> actionOf(p),
      price                 |-> OrElseNum(parseFloat(p.price), 0),
      received_at           |-> t2,
      analyzed              |-> FALSE,
      analyzed_by           |-> Null,
      analyzed_at           |-> Null,
      response_time_seconds |-> Null ]

\* a change of Unshift: signals[0] = signal
UnshiftOverwrite(arr, x) == IF arr = <<>> THEN <<x>> ELSE <<x>> \o Tail(arr)

\* a change of Unshift: signals.push(signal)
UnshiftAtEnd(arr, x) == Append(arr, x)

\* line 48: signals.unshift(signal)
Unshift(arr, x) == <<x>> \o arr

Ingest(p, adv) ==
    /\ UNCHANGED inflight
    /\ Later(now, adv) \in Instants
    /\ IF ~TruthyStr(p.auth_token)
       THEN \* lines 29-31
            /\ ~adv
            /\ res' = [op |-> "ingest", status |-> 401, body |-> <<>>]
            /\ UNCHANGED <<now, signals, trades, analyzed_ok>>
       ELSE /\ Len(signals) + Len(trades) < MaxStored
            /\ LET signal == NewSignal(p, now, Later(now, adv)) IN
               /\ signals' = Unshift(signals, signal)
               /\ res' = [op |-> "ingest", status |-> 200, body |-> <<signal.id>>]
            /\ now' = Later(now, adv)
            /\ UNCHANGED <<trades, analyzed_ok>>

----------------------------------------------------------------------------
(* POST /api/signals/:id/analyze *)

\* the ids a request may name: every id the clock can produce
Ids == {DateNowToString(t) : t \in Instants}

\* the user names of the runs that include the read-only requests
ReadUserNames == {Null, Some("Alice")}

\* the user names of the runs that vary the body of the webhook
FieldUserNames == {Some("Alice")}

\* user_name of the body: absent, empty, or a name.  "7" is an integer-like
\* property key and "constructor" a property every object inherits (line 141's
\* userStats is a plain object keyed by the name).
UserNames == {Null, Some(""), Some("Alice"), Some("7"), Some("constructor")}

\* a change of Find: only the newest signal is looked at
FindAtFront(arr, id) == IF arr # <<>> /\ arr[1].id = id THEN 1 ELSE 0

\* line 81: signals.find(s => s.id === id), as the index of the first match
\* from the front, 0 when there is none
Find(arr, id) ==
    IF \E i \in 1..Len(arr) : arr[i].id = id
    THEN CHOOSE i \in 1..Len(arr) :
            /\ arr[i].id = id
            /\ \A j \in 1..(i - 1) : arr[j].id # id
    ELSE 0

\* a change of responseTime: the operands of the subtraction exchanged
responseTimeSwapped(signal, t1) == (signal.received_at - t1) \div MsPerSecond

\* line 91: (new Date() - signal.received_at) / 1000, t1 being that clock read
responseTime(signal, t1) == (t1 - signal.received_at) \div MsPerSecond

\* a change of AnalyzedSignal: analyzed_by = user_name, without the default
AnalyzedSignalRawName(signal, user_name, t1, t2) ==
    [signal EXCEPT
        !.analyzed = TRUE,
        !.analyzed_by = user_name,
        !.analyzed_at = Some(t2),
        !.response_time_seconds = Some(responseTime(signal, t1))]

\* a change of AnalyzedSignal: the update also stamps received_at anew
AnalyzedSignalRestamped(signal, user_name, t1, t2) ==
    [signal EXCEPT
        !.received_at = t2,
        !.analyzed = TRUE,
        !.analyzed_by = Some(OrElse(user_name, "Anonymous")),
        !.analyzed_at = Some(t2),
        !.response_time_seconds = Some(responseTime(signal, t1))]

\* lines 94-97: the signal after the update; t2 is the clock read of line 96
AnalyzedSignal(signal, user_name, t1, t2) ==
    [signal EXCEPT
        !.analyzed = TRUE,
        !.analyzed_by = Some(OrElse(user_name, "Anonymous")),
        !.analyzed_at = Some(t2),
        !.response_time_seconds = Some(responseTime(signal, t1))]

\* lines 77-104: one run of the handler
AnalyzeRequest(id, user_name, adv) ==
    /\ Later(now, adv) \in Instants
    /\ LET i == Find(signals, id) IN
       IF i = 0
       THEN \* lines 82-84
            /\ ~adv
            /\ res' = [op |-> "analyze", status |-> 404, body |-> <<>>]
            /\ UNCHANGED <<now, signals, trades, analyzed_ok>>
       ELSE IF signals[i].analyzed
       THEN \* lines 86-88
            /\ ~adv
            /\ res' = [op |-> "analyze", status |-> 400, body |-> <<>>]
            /\ UNCHANGED <<now, signals, trades, analyzed_ok>>
       ELSE LET signal == AnalyzedSignal(signals[i], user_name, now, Later(now, adv)) IN
            /\ signals' = [signals EXCEPT ![i] = signal]
            /\ res' = [op |-> "analyze", status |-> 200,
                       body |-> <<signal, signal.response_time_seconds[1]>>]
            /\ now' = Later(now, adv)
            /\ analyzed_ok' = analyzed_ok \cup {id}
            /\ UNCHANGED trades

\* an analyze request, handled as it arrives
Analyze(id, user_name, adv) ==
    /\ AnalyzeRequest(id, user_name, adv)
    /\ UNCHANGED inflight

----------------------------------------------------------------------------
(* POST /api/trades *)

\* request bodies: signal_id absent, or naming a signal (which may not exist)
TradePayloads == [signal_id : {Null, Some(DateNowToString(0))}]

\* lines 108-125, without the price, note and timestamp fields, which nothing
\* reads back
NewTrade(tp, t) ==
    [ id         |-> DateNowToString(t),
      signal_id  |-> tp.signal_id,
      result     |-> "pending",
      pips       |-> 0,
      created_by |-> "Anonymous" ]

CreateTrade(tp) ==
    /\ Len(signals) + Len(trades) < MaxStored
    /\ LET trade == NewTrade(tp, now) IN
       /\ trades' = Unshift(trades, trade)
       /\ res' = [op |-> "trade", status |-> 200, body |-> <<trade>>]
    /\ UNCHANGED <<now, signals, analyzed_ok, inflight>>

----------------------------------------------------------------------------
(* GET /api/leaderboard *)

\* a change of KeepForLeaderboard: s.response_time_seconds !== undefined
KeepDefined(s) == TRUE

\* line 138: signals.filter(s => s.analyzed && s.response_time_seconds)
KeepForLeaderboard(s) == s.analyzed /\ TruthyNum(s.response_time_seconds)

analyzedSignals(sigs) == SelectSeq(sigs, KeepForLeaderboard)

\* Properties that every plain object inherits from Object.prototype; reading
\* one of them from userStats gives a (truthy) function or object.
ObjectPrototypeKeys ==
    { "constructor", "__proto__", "toString", "toLocaleString", "valueOf",
      "hasOwnProperty", "isPrototypeOf", "propertyIsEnumerable" }

\* userStats (line 141) is modelled by its own properties, in the order they
\* were created: a sequence of stats records, the key being the field user.
OwnIndex(userStats, key) ==
    IF \E i \in 1..Len(userStats) : userStats[i].user = key
    THEN CHOOSE i \in 1..Len(userStats) : userStats[i].user = key
    ELSE 0

\* !userStats[key] of line 143
Missing(userStats, key) ==
    OwnIndex(userStats, key) = 0 /\ key \notin ObjectPrototypeKeys

\* lines 144-150
EmptyStats(key) ==
    [ user                |-> key,
      total_signals       |-> 0,
      total_response_time |-> 0,
      fastest_response    |-> Null,
      slowest_response    |-> Null ]

\* lines 154-163, rt being signal.response_time_seconds (null counts as 0
\* in += and in the comparisons)
UpdatedStats(stats, rt) ==
    [ stats EXCEPT
        !.total_signals = @ + 1,
        !.total_response_time = @ + ToNumber(rt),
        !.fastest_response =
            IF ~TruthyNum(@) \/ ToNumber(rt) < ToNumber(@) THEN rt ELSE @,
        !.slowest_response =
            IF ~TruthyNum(@) \/ ToNumber(rt) > ToNumber(@) THEN rt ELSE @ ]

\* lines 142-164: the body of the forEach callback.  When the key names an
\* inherited property, stats is that inherited object: the updates land on it
\* and userStats gets no property of its own.
Accumulate(userStats, signal) ==
    LET key == PropertyKey(signal.analyzed_by)
        created == IF Missing(userStats, key)
                   THEN Append(userStats, EmptyStats(key))
                   ELSE userStats
        i == OwnIndex(created, key)
    IN  IF i = 0
        THEN created
        ELSE [created EXCEPT
                ![i] = UpdatedStats(@, signal.response_time_seconds)]

RECURSIVE ForEach(_, _, _)
\* analyzedSignals.forEach(...), from element k on
ForEach(sigs, k, userStats) ==
    IF k > Len(sigs)
    THEN userStats
    ELSE ForEach(sigs, k + 1, Accumulate(userStats, sigs[k]))

\* the integer an integer-like property key denotes, -1 for any other key
IndexOfKey(key) ==
    IF \E n \in 0..MaxIndexKey : ToString(n) = key
    THEN CHOOSE n \in 0..MaxIndexKey : ToString(n) = key
    ELSE -1

RECURSIVE AscendingKeys(_)
\* the entries of a set of integer-keyed stats, by ascending key
AscendingKeys(S) ==
    IF S = {}
    THEN <<>>
    ELSE LET least == CHOOSE x \in S :
                        \A y \in S : IndexOfKey(x.user) <= IndexOfKey(y.user)
         IN  <<least>> \o AscendingKeys(S \ {least})

IsIndexKeyed(stats) == IndexOfKey(stats.user) >= 0

IsStringKeyed(stats) == IndexOfKey(stats.user) < 0

\* line 167: Object.values(userStats): integer-like keys first, ascending,
\* then the other keys in creation order
ObjectValues(userStats) ==
    AscendingKeys({userStats[i] : i \in {j \in 1..Len(userStats) : IsIndexKeyed(userStats[j])}})
        \o SelectSeq(userStats, IsStringKeyed)

RECURSIVE GCD(_, _)
GCD(a, b) == IF b = 0 THEN a ELSE GCD(b, a % b)

\* a / b for a >= 0 and b > 0, as a fraction in lowest terms
Quotient(a, b) ==
    LET g == GCD(a, b) IN [num |-> a \div g, den |-> b \div g]

\* lines 167-170: the row made from one stats object
Row(stats) ==
    [ user                  |-> stats.user,
      total_signals         |-> stats.total_signals,
      total_response_time   |-> stats.total_response_time,
      fastest_response      |-> stats.fastest_response,
      slowest_response      |-> stats.slowest_response,
      average_response_time |->
          Quotient(stats.total_response_time, stats.total_signals) ]

Rows(values) == [i \in 1..Len(values) |-> Row(values[i])]

\* a change of ComparesAfter: the comparator b.average - a.average
ComparesBefore(a, b) ==
    a.average_response_time.num * b.average_response_time.den
        < b.average_response_time.num * a.average_response_time.den

\* line 170: the comparator's result a.average - b.average is positive
ComparesAfter(a, b) ==
    a.average_response_time.num * b.average_response_time.den
        > b.average_response_time.num * a.average_response_time.den

\* x put into a sorted sequence, behind every element that does not compare
\* after it
InsertSorted(sorted, x) ==
    LET later == {i \in 1..Len(sorted) : ComparesAfter(sorted[i], x)}
        at == IF later = {} THEN Len(sorted) + 1
              ELSE CHOOSE i \in later : \A j \in later : i <= j
    IN  SubSeq(sorted, 1, at - 1) \o <<x>> \o SubSeq(sorted, at, Len(sorted))

RECURSIVE SortFrom(_, _, _)
\* line 170: Array.prototype.sort, which is stable
SortFrom(rows, k, sorted) ==
    IF k > Len(rows)
    THEN sorted
    ELSE SortFrom(rows, k + 1, InsertSorted(sorted, rows[k]))

Sort(rows) == SortFrom(rows, 1, <<>>)

\* lines 138-170
Leaderboard(sigs) ==
    Sort(Rows(ObjectValues(ForEach(analyzedSignals(sigs), 1, <<>>))))

GetLeaderboard ==
    /\ res' = [op |-> "leaderboard", status |-> 200, body |-> Leaderboard(signals)]
    /\ UNCHANGED <<now, signals, trades, analyzed_ok, inflight>>

----------------------------------------------------------------------------
(* GET /api/signals, /api/signals/pending, /api/trades, /health *)

\* lines 66-68
ListSignals ==
    /\ res' = [op |-> "signals", status |-> 200, body |-> signals]
    /\ UNCHANGED <<now, signals, trades, analyzed_ok, inflight>>

\* line 72: signal => !signal.analyzed
IsPending(signal) == ~signal.analyzed

\* line 72: signals.filter(...)
pendingSignals(sigs) == SelectSeq(sigs, IsPending)

\* lines 71-74
ListPending ==
    /\ res' = [op |-> "pending", status |-> 200, body |-> pendingSignals(signals)]
    /\ UNCHANGED <<now, signals, trades, analyzed_ok, inflight>>

\* lines 132-134
ListTrades ==
    /\ res' = [op |-> "trades", status |-> 200, body |-> trades]
    /\ UNCHANGED <<now, signals, trades, analyzed_ok, inflight>>

\* a change of healthBody: both counts taken from signals
healthBodyOneCount(sigs, trs, t) ==
    [ status        |-> "healthy",
      timestamp     |-> t,
      signals_count |-> Len(sigs),
      trades_count  |-> Len(sigs) ]

\* lines 177-182, t being the clock read of line 179
healthBody(sigs, trs, t) ==
    [ status        |-> "healthy",
      timestamp     |-> t,
      signals_count |-> Len(sigs),
      trades_count  |-> Len(trs) ]

\* lines 176-183
Health ==
    /\ res' = [op |-> "health", status |-> 200,
               body |-> <<healthBody(signals, trades, now)>>]
    /\ UNCHANGED <<now, signals, trades, analyzed_ok, inflight>>

----------------------------------------------------------------------------
(* The clock *)

Tick ==
    /\ now + TickMs \in Instants
    /\ now' = now + TickMs
    /\ UNCHANGED <<signals, trades, res, analyzed_ok, inflight>>

----------------------------------------------------------------------------
Init ==
    /\ now = 0
    /\ signals = <<>>
    /\ trades = <<>>
    /\ res = [op |-> "none", status |-> 0, body |-> <<>>]
    /\ analyzed_ok = {}
    /\ inflight = {}

\* the requests and clock steps, for bodies and user names drawn from the
\* given sets; advances says whether the clock may move between the two reads
\* of one handler
NextOver(bodies, names, advances) ==
    \/ \E p \in bodies, adv \in advances : Ingest(p, adv)
    \/ \E id \in Ids, user_name \in names, adv \in advances : Analyze(id, user_name, adv)
    \/ \E tp \in TradePayloads : CreateTrade(tp)
    \/ GetLeaderboard
    \/ Tick

Next == NextOver(Payloads, UserNames, BOOLEAN)

\* the server under requests that vary the token and the analyst's name
Spec == Init /\ [][Next]_vars

NextFields == NextOver(FieldPayloads, FieldUserNames, {FALSE})

\* the server under requests that vary the fields of the webhook's body
SpecFields == Init /\ [][NextFields]_vars

\* the requests that only read the stores
ReadRequests ==
    \/ ListSignals
    \/ ListPending
    \/ ListTrades
    \/ Health

NextReads == NextOver(Payloads, ReadUserNames, BOOLEAN) \/ ReadRequests

\* the server under all its requests, with fewer analyst names
SpecReads == Init /\ [][NextReads]_vars

----------------------------------------------------------------------------
(* Two analyze requests in flight *)

\* Express calls the handler of line 77 once per request received, and each
\* call runs to its end before the next starts: requests that are in flight
\* together are handled one after the other, in either order, and other
\* requests may be handled in between.

\* the two requests
Racers == {"first", "second"}

\* the user names the two requests carry
RaceUserNames == {Some("Alice"), Some("7")}

\* the bodies of the webhook requests handled meanwhile
RacePayloads ==
    {[auth_token |-> Some("t"), ticker |-> Null, action |-> Null, price |-> Null]}

\* history: the pending signal an analyze request for id would reach now, as
\* its number in the order of ingestion; 0 when it would reach none
Target(id) ==
    LET i == Find(signals, id) IN
    IF i # 0 /\ ~signals[i].analyzed THEN Len(signals) - i + 1 ELSE 0

\* history: the requests waiting for the pending signal that a request for id
\* would reach now
Rivals(id) ==
    {r.name : r \in {q \in inflight :
                        q.status = 0 /\ q.id = id /\ Target(id) # 0
                            /\ q.target = Target(id)}}

\* a request arrives; status 0 says it has not been handled yet
Submit(name, id, user_name) ==
    /\ \A r \in inflight : r.name # name
    /\ inflight' = inflight \cup
          {[ name      |-> name,
             id        |-> id,
             user_name |-> user_name,
             status    |-> 0,
             target    |-> Target(id),
             rivals    |-> Rivals(id) ]}
    /\ UNCHANGED <<now, signals, trades, res, analyzed_ok>>

\* the handler runs for a waiting request
Handle(name, adv) ==
    \E r \in inflight :
        /\ r.name = name
        /\ r.status = 0
        /\ AnalyzeRequest(r.id, r.user_name, adv)
        /\ inflight' = (inflight \ {r}) \cup {[r EXCEPT !.status = res'.status]}

NextRace ==
    \/ \E p \in RacePayloads : Ingest(p, FALSE)
    \/ \E name \in Racers, id \in Ids, user_name \in RaceUserNames :
          Submit(name, id, user_name)
    \/ \E name \in Racers, adv \in BOOLEAN : Handle(name, adv)
    \/ Tick

\* the server under two analyze requests that may be in flight together
SpecRace == Init /\ [][NextRace]_vars

----------------------------------------------------------------------------
(* Vocabulary of the properties *)

\* the positions of the store
Positions == 1..Len(signals)

\* the k-th signal ingested, in an array holding n signals newest first
Ingested(arr, k) == arr[Len(arr) - k + 1]

IsAnalyzed(s) == s.analyzed

\* the number of analyzed signals attributed to the name a
AnalyzedBy(a) ==
    Cardinality({i \in Positions :
                    signals[i].analyzed /\ signals[i].analyzed_by = Some(a)})

\* the names some analyzed signal is attributed to
Analysts ==
    {signals[i].analyzed_by[1] : i \in {j \in Positions : signals[j].analyzed}}

RECURSIVE SumOfTotals(_, _)
\* total_signals summed over the rows k .. of a leaderboard
SumOfTotals(rows, k) ==
    IF k > Len(rows) THEN 0 ELSE rows[k].total_signals + SumOfTotals(rows, k + 1)

\* an auth_token that is missing or empty
NoToken(p) == p.auth_token = Null \/ p.auth_token = Some("")

\* arr without its element at position i
Without(arr, i) == SubSeq(arr, 1, i - 1) \o SubSeq(arr, i + 1, Len(arr))

\* a signal as ingest creates it
IsFresh(s) ==
    /\ ~s.analyzed
    /\ s.analyzed_by = Null
    /\ s.analyzed_at = Null
    /\ s.response_time_seconds = Null

----------------------------------------------------------------------------
(* C1 *)

\* C1: once an analyze request for an id has succeeded, every later analyze
\* request with that id is answered AlreadyAnalyzed (400) and leaves every
\* stored signal as it was.
C1_AnalyzeOncePerId ==
    [][\A id \in Ids, user_name \in UserNames, adv \in BOOLEAN :
          (id \in analyzed_ok /\ Analyze(id, user_name, adv))
              => (res'.status = 400 /\ signals' = signals)]_vars

----------------------------------------------------------------------------
(* C2 *)

\* C2: the signals of the store have pairwise distinct ids.
C2_DistinctIds ==
    \A i, j \in Positions : i # j => signals[i].id # signals[j].id

----------------------------------------------------------------------------
(* C3 *)

\* C3: a stored signal is analyzed iff analyzed_by, analyzed_at and
\* response_time_seconds are all non-null, and pending iff all three are null.
C3_StatusIffFields ==
    \A i \in Positions :
        LET s == signals[i] IN
        /\ s.analyzed <=> ( /\ s.analyzed_by # Null
                            /\ s.analyzed_at # Null
                            /\ s.response_time_seconds # Null )
        /\ ~s.analyzed <=> ( /\ s.analyzed_by = Null
                             /\ s.analyzed_at = Null
                             /\ s.response_time_seconds = Null )

\* an analyze request without a user name has succeeded with response time 0,
\* beside a pending signal
C3_Witness ==
    /\ res.op = "analyze" /\ res.status = 200
    /\ \E i \in Positions :
          /\ signals[i].analyzed
          /\ signals[i].analyzed_by = Some("Anonymous")
          /\ signals[i].response_time_seconds = Some(0)
    /\ \E i \in Positions : ~signals[i].analyzed

----------------------------------------------------------------------------
(* C4 *)

\* C4: for every analyzed signal, response_time_seconds is analyzed_at minus
\* received_at, in seconds.
C4_ResponseTimeIsDifference ==
    \A i \in Positions :
        signals[i].analyzed =>
            signals[i].response_time_seconds[1] * MsPerSecond
                = signals[i].analyzed_at[1] - signals[i].received_at

----------------------------------------------------------------------------
(* C5 *)

\* what C5 says of one state: an analyzed signal has a response time >= 0, a
\* pending one has none
C5_State ==
    \A i \in Positions :
        /\ signals[i].analyzed => signals[i].response_time_seconds[1] >= 0
        /\ ~signals[i].analyzed => signals[i].response_time_seconds = Null

\* what C5 says of one step: a response time, once set, stays, and it is set
\* only by the step that takes the signal from pending to analyzed
C5_Step ==
    \A k \in Positions :
        LET before == Ingested(signals, k)
            after == Ingested(signals', k)
        IN  /\ before.response_time_seconds # Null
                => after.response_time_seconds = before.response_time_seconds
            /\ (before.response_time_seconds = Null
                    /\ after.response_time_seconds # Null)
                => (~before.analyzed /\ after.analyzed)

\* C5: under a clock that never goes backwards every analyzed signal has
\* response_time_seconds >= 0; the field is null while the signal is pending,
\* is set at the pending -> analyzed transition and never changes afterwards.
C5_ResponseTimeSetOnce == []C5_State /\ [][C5_Step]_vars

\* a second analyze of a signal that took a positive time has been refused
C5_Witness ==
    /\ res.op = "analyze" /\ res.status = 400
    /\ \E i \in Positions :
          signals[i].analyzed /\ signals[i].response_time_seconds[1] > 0

----------------------------------------------------------------------------
(* C6 *)

\* C6: an ingest whose auth_token is missing or empty is answered
\* AuthenticationRequired (401) and leaves both stores as they were.
C6_NoTokenNoSignal ==
    [][\A p \in Payloads, adv \in BOOLEAN :
          (NoToken(p) /\ Ingest(p, adv))
              => (res'.status = 401 /\ signals' = signals /\ trades' = trades)]_vars

\* an ingest has been refused while both stores hold a record
C6_Witness ==
    /\ res.op = "ingest" /\ res.status = 401
    /\ Len(signals) >= 1
    /\ Len(trades) >= 1

----------------------------------------------------------------------------
(* C7 *)

\* C7: an ingest with a non-empty auth_token adds exactly one signal, pending
\* and with null analysis fields, leaves the signals stored before (and the
\* trades) unchanged, and returns the id of the signal it added.
C7_IngestAddsOnePending ==
    [][\A p \in Payloads, adv \in BOOLEAN :
          (~NoToken(p) /\ Ingest(p, adv))
              => /\ res'.status = 200
                 /\ \E i \in 1..Len(signals') :
                       /\ Without(signals', i) = signals
                       /\ IsFresh(signals'[i])
                       /\ res'.body = <<signals'[i].id>>
                 /\ trades' = trades]_vars

\* an ingest has been accepted into a store that held an analyzed signal
C7_Witness ==
    /\ res.op = "ingest" /\ res.status = 200
    /\ Len(signals) >= 2
    /\ IsFresh(signals[1])
    /\ signals[2].analyzed

----------------------------------------------------------------------------
(* C8 *)

\* C8: every name that some analyzed signal is attributed to has exactly one
\* leaderboard row, whose total_signals is the number of analyzed signals
\* attributed to it (response times of 0 included); the rows' total_signals
\* add up to the number of analyzed signals.
C8_RowPerAnalyst ==
    LET rows == Leaderboard(signals) IN
    /\ \A a \in Analysts :
          /\ Cardinality({r \in 1..Len(rows) : rows[r].user = a}) = 1
          /\ \A r \in 1..Len(rows) :
                rows[r].user = a => rows[r].total_signals = AnalyzedBy(a)
    /\ SumOfTotals(rows, 1)
          = Cardinality({i \in Positions : signals[i].analyzed})

----------------------------------------------------------------------------
(* C9 *)

\* C9: in every leaderboard, each row's average_response_time is its
\* total_response_time divided by its total_signals, and the rows are in
\* non-decreasing order of average_response_time.
C9_AverageAndOrder ==
    LET rows == Leaderboard(signals) IN
    /\ \A r \in 1..Len(rows) :
          /\ rows[r].average_response_time.den > 0
          /\ rows[r].average_response_time.num * rows[r].total_signals
                = rows[r].total_response_time * rows[r].average_response_time.den
    /\ \A q, r \in 1..Len(rows) :
          q < r => rows[q].average_response_time.num * rows[r].average_response_time.den
                     <= rows[r].average_response_time.num * rows[q].average_response_time.den

\* a leaderboard of two rows with different averages has been returned, the
\* faster analyst's statistics having been created second
C9_Witness ==
    /\ res.op = "leaderboard"
    /\ res.body = Leaderboard(signals)
    /\ Len(res.body) = 2
    /\ res.body[1].average_response_time # res.body[2].average_response_time
    /\ ObjectValues(ForEach(analyzedSignals(signals), 1, <<>>))[1].user
          = res.body[2].user

----------------------------------------------------------------------------
(* C10 *)

\* C10: no pending signal contributes to a leaderboard row (the leaderboard
\* is that of the analyzed signals alone, and a row counts no more signals
\* than are attributed to its name), every row has total_signals >= 1, and
\* without analyzed signals the leaderboard is empty.
C10_PendingExcluded ==
    LET rows == Leaderboard(signals) IN
    /\ rows = Leaderboard(SelectSeq(signals, IsAnalyzed))
    /\ \A r \in 1..Len(rows) :
          /\ rows[r].total_signals >= 1
          /\ rows[r].total_signals <= AnalyzedBy(rows[r].user)
    /\ (\A i \in Positions : ~signals[i].analyzed) => rows = <<>>

\* a leaderboard of one row has been returned from a store holding a pending
\* signal too
C10_Witness ==
    /\ res.op = "leaderboard"
    /\ Len(res.body) = 1
    /\ Len(Leaderboard(signals)) = 1
    /\ \E i \in Positions : ~signals[i].analyzed

----------------------------------------------------------------------------
(* C11 *)

\* C11: every stored signal has action buy or sell (ingest stores buy for an
\* absent or unrecognized action).
C11_ActionBuyOrSell ==
    \A i \in Positions : signals[i].action \in {"buy", "sell"}

----------------------------------------------------------------------------
(* C12 *)

\* C12: an analyze request whose id matches no stored signal is answered
\* NotFound (404) and leaves the signals as they were, and NotFound is the
\* answer only when no stored signal has the id.
C12_NotFoundIffAbsent ==
    [][\A id \in Ids :
          LET absent == \A i \in Positions : signals[i].id # id IN
          \A user_name \in ReadUserNames, adv \in BOOLEAN :
              ((absent \/ res'.status = 404) /\ Analyze(id, user_name, adv))
                  => (absent /\ res'.status = 404 /\ signals' = signals)]_vars

\* an analyze request has been answered NotFound by a store that holds
\* signals, one of them analyzed
C12_Witness ==
    /\ res.op = "analyze" /\ res.status = 404
    /\ Len(signals) >= 2
    /\ \E i \in Positions : signals[i].analyzed

----------------------------------------------------------------------------
(* C13 *)

\* what C13 says of the k-th signal ingested, in one step
C13_StepOf(k) ==
    LET before == Ingested(signals, k)
        after == Ingested(signals', k)
    IN  /\ after.id = before.id
        /\ after.ticker = before.ticker
        /\ after.action = before.action
        /\ after.price = before.price
        /\ after.received_at = before.received_at
        /\ before.analyzed => after = before
        /\ after # before => (~before.analyzed /\ after.analyzed)

\* C13: no step removes a stored signal or changes its id, ticker, action,
\* price or received_at; a signal changes at most once, from pending to
\* analyzed, and never back.
C13_SignalsKept ==
    [][ /\ Len(signals') >= Len(signals)
        /\ \A k \in Positions : C13_StepOf(k) ]_vars

\* a signal with fields of its own has been analyzed, and a signal has been
\* ingested after it
C13_Witness ==
    /\ Len(signals) >= 2
    /\ Ingested(signals, 1).analyzed
    /\ Ingested(signals, 1).ticker = "EURUSD"
    /\ Ingested(signals, 1).action = "sell"
    /\ Ingested(signals, 1).price = 2
    /\ ~Ingested(signals, 2).analyzed

----------------------------------------------------------------------------
(* C14 *)

RECURSIVE PendingFrom(_, _)
\* the pending signals among arr[k], arr[k+1], ..., in that order
PendingFrom(arr, k) ==
    IF k > Len(arr) THEN <<>>
    ELSE IF arr[k].analyzed THEN PendingFrom(arr, k + 1)
    ELSE <<arr[k]>> \o PendingFrom(arr, k + 1)

\* what C14 says of one state: from the front of the store on, received_at
\* does not increase
C14_State ==
    \A i, j \in Positions :
        i < j => signals[i].received_at >= signals[j].received_at

\* what C14 says of one step: an accepted ingest puts its signal in front of
\* the signals stored before, an analyze leaves every signal at its position,
\* list-signals returns the store as it is and list-pending its pending
\* signals in the store's order
C14_Step ==
    /\ \A p \in Payloads, adv \in BOOLEAN :
          (~NoToken(p) /\ Ingest(p, adv))
              => (Len(signals') = Len(signals) + 1 /\ Tail(signals') = signals)
    /\ \A id \in Ids, user_name \in ReadUserNames, adv \in BOOLEAN :
          Analyze(id, user_name, adv)
              => /\ Len(signals') = Len(signals)
                 /\ \A i \in Positions :
                       /\ signals'[i].id = signals[i].id
                       /\ signals'[i].received_at = signals[i].received_at
    /\ (res'.op = "signals" /\ now' = now) => res'.body = signals
    /\ (res'.op = "pending" /\ now' = now) => res'.body = PendingFrom(signals, 1)

\* C14: the store, which list-signals returns, holds the signals in reverse
\* order of ingestion (received_at non-increasing from the front, the clock
\* never going backwards); analyze does not move a signal; list-pending
\* returns exactly the pending signals, in the same relative order.
C14_NewestFirst == []C14_State /\ [][C14_Step]_vars

\* list-pending has returned one signal, ingested after one that is analyzed
\* and at a later time
C14_Witness ==
    /\ res.op = "pending"
    /\ Len(res.body) = 1
    /\ Len(signals) = 2
    /\ ~signals[1].analyzed
    /\ signals[2].analyzed
    /\ signals[1].received_at > signals[2].received_at

----------------------------------------------------------------------------
(* C15 *)

\* the labels of the responses of the read-only requests
ReadOps == {"signals", "pending", "trades", "leaderboard", "health"}

\* C15: a read-only request (list signals, list pending, list trades,
\* leaderboard, health) leaves the signals and the trades as they were, and
\* health reports the numbers of stored signals and trades.
C15_ReadsChangeNothing ==
    [][(res'.op \in ReadOps /\ now' = now)
          => /\ signals' = signals
             /\ trades' = trades
             /\ res'.op = "health"
                   => /\ res'.body[1].signals_count = Len(signals)
                      /\ res'.body[1].trades_count = Len(trades)]_vars

\* health has reported on stores that hold a signal and a trade
C15_Witness ==
    /\ res.op = "health"
    /\ Len(signals) = 1
    /\ Len(trades) = 1
    /\ res.body[1].signals_count = 1
    /\ res.body[1].trades_count = 1

----------------------------------------------------------------------------
(* C16 *)

\* C16: an analyze request that names the id of a stored pending signal
\* succeeds (200) and takes that signal to analyzed.
C16_PendingCanBeAnalyzed ==
    [][\A i \in Positions, user_name \in UserNames, adv \in BOOLEAN :
          (~signals[i].analyzed /\ Analyze(signals[i].id, user_name, adv))
              => (res'.status = 200 /\ signals'[i].analyzed)]_vars

----------------------------------------------------------------------------
(* C17 *)

\* the request of the given name
Request(name) == CHOOSE r \in inflight : r.name = name

\* C17: of two analyze requests that were in flight together for the same
\* pending signal, once both are answered, exactly one has succeeded (200) and
\* the other was answered AlreadyAnalyzed (400), the signal is attributed to
\* the one that succeeded, and in no state does a signal carry only some of
\* its analysis fields.
C17_OneWinner ==
    /\ C3_StatusIffFields
    /\ \A b \in inflight : \A n \in b.rivals :
          LET a == Request(n) IN
          (a.status # 0 /\ b.status # 0)
              => /\ {a.status, b.status} = {200, 400}
                 /\ LET winner == IF a.status = 200 THEN a ELSE b IN
                    Ingested(signals, b.target).analyzed_by
                        = Some(OrElse(winner.user_name, "Anonymous"))

----------------------------------------------------------------------------
(* C18 *)

\* the positions of the analyzed signals attributed to the name a that have
\* a response time: the group of a
GroupOf(a) ==
    {i \in Positions :
        /\ signals[i].analyzed
        /\ signals[i].response_time_seconds # Null
        /\ signals[i].analyzed_by = Some(a)}

RECURSIVE SumOfResponseTimes(_)
\* the response times of the signals at the positions S, added up
SumOfResponseTimes(S) ==
    IF S = {} THEN 0
    ELSE LET i == CHOOSE j \in S : TRUE
         IN  signals[i].response_time_seconds[1] + SumOfResponseTimes(S \ {i})

\* C18: in every leaderboard row, fastest_response is the minimum and
\* slowest_response the maximum of the response times of the analyzed signals
\* of the row's analyst, total_response_time is their sum, and the average
\* lies between fastest_response and slowest_response.
C18_FastestSlowestTotal ==
    LET rows == Leaderboard(signals) IN
    \A r \in 1..Len(rows) :
        LET group == GroupOf(rows[r].user)
            times == {signals[i].response_time_seconds[1] : i \in group}
            fastest == rows[r].fastest_response
            slowest == rows[r].slowest_response
            average == rows[r].average_response_time
        IN  /\ fastest # Null /\ slowest # Null
            /\ fastest[1] \in times /\ \A x \in times : fastest[1] <= x
            /\ slowest[1] \in times /\ \A x \in times : slowest[1] >= x
            /\ rows[r].total_response_time = SumOfResponseTimes(group)
            /\ fastest[1] * average.den <= average.num
            /\ average.num <= slowest[1] * average.den

----------------------------------------------------------------------------
(* C19 *)

\* the position, in the sequence the aggregator reads, of the first signal
\* attributed to the key a
FirstRead(read, a) ==
    CHOOSE i \in 1..Len(read) :
        /\ PropertyKey(read[i].analyzed_by) = a
        /\ \A j \in 1..(i - 1) : PropertyKey(read[j].analyzed_by) # a

\* C19: of two leaderboard rows with equal average_response_time, the one
\* whose analyst's first signal comes earlier in the sequence read by the
\* aggregator is listed first.
C19_TiesInInputOrder ==
    LET read == analyzedSignals(signals)
        rows == Leaderboard(signals)
    IN  \A q, r \in 1..Len(rows) :
            (q < r /\ rows[q].average_response_time = rows[r].average_response_time)
                => FirstRead(read, rows[q].user) < FirstRead(read, rows[r].user)

====
